---- MODULE Spec2Model ----
(***************************************************************************)
(* Model of the batcher binary (pipeline/src/bin/batcher.rs): broker       *)
(* set-up, download_and_unzip, parse_cdx_line, the language filter, the    *)
(* chunking into batches and the publish loop of main.                     *)
(*                                                                         *)
(* Text is modelled at character level: a string is a sequence of          *)
(* one-character strings, so that splitting, substring search, JSON        *)
(* decoding and JSON encoding are computed the way the code computes them. *)
(***************************************************************************)
EXTENDS Integers, Sequences, FiniteSets, TLC

(***************************************************************************)
(* Characters and string helpers (std::str)                                *)
(***************************************************************************)
Q == "\""
NL == "\n"
SP == " "
BSL == "\\"

Digits == {"0", "1", "2", "3", "4", "5", "6", "7", "8", "9"}

\* Position of the first occurrence of character c in s at or after i;
\* 0 when there is none.
IndexFrom(s, c, i) ==
    IF \E j \in i..Len(s) : s[j] = c
    THEN CHOOSE j \in i..Len(s) : s[j] = c /\ \A k \in i..(j - 1) : s[k] # c
    ELSE 0

\* str::contains(pat): pat occurs in s as a contiguous substring.
Contains(s, pat) ==
    \E i \in 0..(Len(s) - Len(pat)) : SubSeq(s, i + 1, i + Len(pat)) = pat

\* str::lines(): split at "\n"; a final line terminator does not open
\* another (empty) line; a "\r" right before the "\n" is stripped too.
StripCR(l) ==
    IF Len(l) > 0 /\ l[Len(l)] = "\r" THEN SubSeq(l, 1, Len(l) - 1) ELSE l

RECURSIVE LinesFrom(_, _)
LinesFrom(t, i) ==
    IF i > Len(t) THEN <<>>
    ELSE LET j == IndexFrom(t, NL, i)
         IN IF j = 0 THEN <<SubSeq(t, i, Len(t))>>
            ELSE <<StripCR(SubSeq(t, i, j - 1))>> \o LinesFrom(t, j + 1)

Lines(t) == LinesFrom(t, 1)

\* Variant of SplitN: str::split(c), a part at every c.
RECURSIVE SplitN_All(_, _, _)
SplitN_All(s, n, c) ==
    IF IndexFrom(s, c, 1) = 0 THEN <<s>>
    ELSE <<SubSeq(s, 1, IndexFrom(s, c, 1) - 1)>>
         \o SplitN_All(SubSeq(s, IndexFrom(s, c, 1) + 1, Len(s)), n, c)

\* str::splitn(n, c): at most n parts, the last one is the unsplit rest.
RECURSIVE SplitN(_, _, _)
SplitN(s, n, c) ==
    LET j == IndexFrom(s, c, 1)
    IN IF n <= 1 \/ j = 0 THEN <<s>>
       ELSE <<SubSeq(s, 1, j - 1)>> \o SplitN(SubSeq(s, j + 1, Len(s)), n - 1, c)

(***************************************************************************)
(* Field names of CdxMetadata and CdxEntry                                 *)
(***************************************************************************)
K_url == <<"u", "r", "l">>
K_status == <<"s", "t", "a", "t", "u", "s">>
K_length == <<"l", "e", "n", "g", "t", "h">>
K_offset == <<"o", "f", "f", "s", "e", "t">>
K_filename == <<"f", "i", "l", "e", "n", "a", "m", "e">>
K_languages == <<"l", "a", "n", "g", "u", "a", "g", "e", "s">>
K_surt_url == <<"s", "u", "r", "t", "_", "u", "r", "l">>
K_timestamp == <<"t", "i", "m", "e", "s", "t", "a", "m", "p">>
K_metadata == <<"m", "e", "t", "a", "d", "a", "t", "a">>

\* The String fields of CdxMetadata, in declaration order, and its one
\* Option<String> field.
RequiredFields == <<K_url, K_status, K_length, K_offset, K_filename>>
CdxMetadataFields == RequiredFields \o <<K_languages>>

W_null == <<"n", "u", "l", "l">>
W_true == <<"t", "r", "u", "e">>
W_false == <<"f", "a", "l", "s", "e">>
W_eng == <<"e", "n", "g">>
W_cdx == <<"c", "d", "x", "-">>

(***************************************************************************)
(* serde_json::from_str for a flat JSON object.  Values are strings        *)
(* (without escape sequences), unsigned integers, null, true and false.    *)
(***************************************************************************)
IsWs(c) == c \in {" ", "\t", "\n", "\r"}

RECURSIVE SkipWs(_, _)
SkipWs(s, i) == IF i <= Len(s) /\ IsWs(s[i]) THEN SkipWs(s, i + 1) ELSE i

RECURSIVE DigitsEnd(_, _)
DigitsEnd(s, i) == IF i <= Len(s) /\ s[i] \in Digits THEN DigitsEnd(s, i + 1) ELSE i

JErr == [ok |-> FALSE, val |-> [t |-> "err", v |-> <<>>], next |-> 0]
JOk(t, v, n) == [ok |-> TRUE, val |-> [t |-> t, v |-> v], next |-> n]

\* s[i] is the opening quote; the string ends at the next quote.  A
\* backslash would start an escape sequence, which is not decoded here.
ParseStr(s, i) ==
    LET j == IndexFrom(s, Q, i + 1)
    IN IF j = 0 \/ \E k \in (i + 1)..(j - 1) : s[k] = BSL THEN JErr
       ELSE JOk("str", SubSeq(s, i + 1, j - 1), j + 1)

ParseNum(s, i) ==
    LET e == DigitsEnd(s, i)
    IN IF s[i] = "0" /\ e > i + 1 THEN JErr
       ELSE JOk("num", SubSeq(s, i, e - 1), e)

ParseWord(s, i, w, t) ==
    IF i + Len(w) - 1 <= Len(s) /\ SubSeq(s, i, i + Len(w) - 1) = w
    THEN JOk(t, w, i + Len(w))
    ELSE JErr

ParseValue(s, i) ==
    IF i > Len(s) THEN JErr
    ELSE IF s[i] = Q THEN ParseStr(s, i)
    ELSE IF s[i] \in Digits THEN ParseNum(s, i)
    ELSE IF s[i] = "n" THEN ParseWord(s, i, W_null, "null")
    ELSE IF s[i] = "t" THEN ParseWord(s, i, W_true, "bool")
    ELSE IF s[i] = "f" THEN ParseWord(s, i, W_false, "bool")
    ELSE JErr

OErr == [ok |-> FALSE, members |-> <<>>, next |-> 0]

\* The members of an object, one operator per step of a member
\*     "key" : value ,   or   "key" : value }
\* acc holds the members read so far as <<key, value>> pairs, in source
\* order.  Position i is where a member key is expected.
RECURSIVE ParseMembers(_, _, _)

\* d is the position after the member's value and white space.
MemberEnd(s, d, acc) ==
    IF d > Len(s) THEN OErr
    ELSE IF s[d] = "," THEN ParseMembers(s, SkipWs(s, d + 1), acc)
    ELSE IF s[d] = "}" THEN [ok |-> TRUE, members |-> acc, next |-> d + 1]
    ELSE OErr

\* v is the result of reading the member's value.
MemberValue(s, key, v, acc) ==
    IF ~v.ok THEN OErr
    ELSE MemberEnd(s, SkipWs(s, v.next), Append(acc, <<key, v.val>>))

\* c is the position where the colon is expected.
MemberColon(s, key, c, acc) ==
    IF c > Len(s) \/ s[c] # ":" THEN OErr
    ELSE MemberValue(s, key, ParseValue(s, SkipWs(s, c + 1)), acc)

\* k is the result of reading the member's key.
MemberKey(s, k, acc) ==
    IF ~k.ok THEN OErr
    ELSE MemberColon(s, k.val.v, SkipWs(s, k.next), acc)

ParseMembers(s, i, acc) ==
    IF i > Len(s) \/ s[i] # Q THEN OErr
    ELSE MemberKey(s, ParseStr(s, i), acc)

\* r is the result of reading the object up to its closing brace: only
\* white space may follow.
ObjectEnd(s, r) == IF r.ok /\ SkipWs(s, r.next) = Len(s) + 1 THEN r ELSE OErr

\* j is the position after the opening brace and white space.
ObjectBody(s, j) ==
    ObjectEnd(s, IF j <= Len(s) /\ s[j] = "}"
                 THEN [ok |-> TRUE, members |-> <<>>, next |-> j + 1]
                 ELSE ParseMembers(s, j, <<>>))

\* i is the position of the first character that is not white space.
ObjectStart(s, i) ==
    IF i > Len(s) \/ s[i] # "{" THEN OErr ELSE ObjectBody(s, SkipWs(s, i + 1))

\* A whole JSON text that is one flat object: its members, or an error
\* (also for trailing characters after the closing brace).
ParseObject(s) == ObjectStart(s, SkipWs(s, 1))

(***************************************************************************)
(* #[derive(Deserialize)] for CdxMetadata: unknown members are ignored, a  *)
(* member of the struct given twice is an error, the five String fields    *)
(* must be present with a string value, languages may be absent or null.   *)
(***************************************************************************)
FieldIdx(members, k) == {i \in 1..Len(members) : members[i][1] = k}

FieldVal(members, k) == members[CHOOSE i \in FieldIdx(members, k) : TRUE][2]

None == <<>>
Some(v) == <<v>>

DeOk(members) ==
    /\ \A n \in 1..Len(CdxMetadataFields) :
          Cardinality(FieldIdx(members, CdxMetadataFields[n])) <= 1
    /\ \A n \in 1..Len(RequiredFields) :
          /\ FieldIdx(members, RequiredFields[n]) # {}
          /\ FieldVal(members, RequiredFields[n]).t = "str"
    /\ FieldIdx(members, K_languages) # {} =>
          FieldVal(members, K_languages).t \in {"str", "null"}

\* Variant of DeCdxMetadata: length and offset take each other's value.
DeCdxMetadata_Swapped(members) ==
    [url |-> FieldVal(members, K_url).v,
     status |-> FieldVal(members, K_status).v,
     length |-> FieldVal(members, K_offset).v,
     offset |-> FieldVal(members, K_length).v,
     filename |-> FieldVal(members, K_filename).v,
     languages |-> IF FieldIdx(members, K_languages) = {} THEN None
                   ELSE IF FieldVal(members, K_languages).t = "null" THEN None
                   ELSE Some(FieldVal(members, K_languages).v)]

DeCdxMetadata(members) ==
    [url |-> FieldVal(members, K_url).v,
     status |-> FieldVal(members, K_status).v,
     length |-> FieldVal(members, K_length).v,
     offset |-> FieldVal(members, K_offset).v,
     filename |-> FieldVal(members, K_filename).v,
     languages |-> IF FieldIdx(members, K_languages) = {} THEN None
                   ELSE IF FieldVal(members, K_languages).t = "null" THEN None
                   ELSE Some(FieldVal(members, K_languages).v)]

NoMetadata ==
    [url |-> <<>>, status |-> <<>>, length |-> <<>>, offset |-> <<>>,
     filename |-> <<>>, languages |-> None]

\* The struct built from the members o of the object, or an error.
FromObject(o) ==
    IF o.ok /\ DeOk(o.members)
    THEN [ok |-> TRUE, val |-> DeCdxMetadata(o.members)]
    ELSE [ok |-> FALSE, val |-> NoMetadata]

\* serde_json::from_str::<CdxMetadata>
from_str(s) == FromObject(ParseObject(s))

\* The CdxEntry of lines 157-161 from the parts of the line and the result
\* meta of decoding the third; ok = FALSE stands for the panic of an unwrap.
EntryOf(parts, meta) ==
    [ok |-> Len(parts) = 3 /\ meta.ok,
     entry |-> [surt_url |-> parts[1],
                timestamp |-> IF Len(parts) >= 2 THEN parts[2] ELSE <<>>,
                metadata |-> meta.val]]

ParseParts(parts) ==
    EntryOf(parts, IF Len(parts) = 3 THEN from_str(parts[3])
                   ELSE [ok |-> FALSE, val |-> NoMetadata])

parse_cdx_line(line) == ParseParts(SplitN(line, 3, SP))

\* Variant of keep: the languages value is compared with "eng".
keep_Exact(e) ==
    IF e.metadata.languages # None
    THEN e.metadata.languages[1] = W_eng
    ELSE FALSE

\* The filter closure of main.
keep(e) ==
    IF e.metadata.languages # None
    THEN Contains(e.metadata.languages[1], W_eng)
    ELSE FALSE

\* Variant of Chunks: slice::chunks_exact(n), which leaves the remainder out.
RECURSIVE ChunksExact(_, _)
ChunksExact(s, n) ==
    IF Len(s) < n THEN <<>>
    ELSE <<SubSeq(s, 1, n)>> \o ChunksExact(SubSeq(s, n + 1, Len(s)), n)

\* Variant of Chunks: slice::rchunks(n), which chunks from the end.
RECURSIVE RChunks(_, _)
RChunks(s, n) ==
    IF s = <<>> THEN <<>>
    ELSE IF Len(s) <= n THEN <<s>>
    ELSE <<SubSeq(s, Len(s) - n + 1, Len(s))>> \o RChunks(SubSeq(s, 1, Len(s) - n), n)

\* slice::chunks(n)
RECURSIVE Chunks(_, _)
Chunks(s, n) ==
    IF s = <<>> THEN <<>>
    ELSE IF Len(s) <= n THEN <<s>>
    ELSE <<SubSeq(s, 1, n)>> \o Chunks(SubSeq(s, n + 1, Len(s)), n)

(***************************************************************************)
(* #[derive(Serialize)] and serde_json::to_vec: compact JSON, fields in    *)
(* declaration order, None written as null.                                *)
(***************************************************************************)
RECURSIVE Escape(_)
Escape(s) ==
    IF s = <<>> THEN <<>>
    ELSE (IF Head(s) \in {Q, BSL} THEN <<BSL, Head(s)>> ELSE <<Head(s)>>)
         \o Escape(Tail(s))

SerStr(s) == <<Q>> \o Escape(s) \o <<Q>>

SerOpt(o) == IF o = None THEN W_null ELSE SerStr(o[1])

SerMember(k, v) == SerStr(k) \o <<":">> \o v

SerMetadata(m) ==
    <<"{">> \o SerMember(K_url, SerStr(m.url))
    \o <<",">> \o SerMember(K_status, SerStr(m.status))
    \o <<",">> \o SerMember(K_length, SerStr(m.length))
    \o <<",">> \o SerMember(K_offset, SerStr(m.offset))
    \o <<",">> \o SerMember(K_filename, SerStr(m.filename))
    \o <<",">> \o SerMember(K_languages, SerOpt(m.languages))
    \o <<"}">>

SerEntry(e) ==
    <<"{">> \o SerMember(K_surt_url, SerStr(e.surt_url))
    \o <<",">> \o SerMember(K_timestamp, SerStr(e.timestamp))
    \o <<",">> \o SerMember(K_metadata, SerMetadata(e.metadata))
    \o <<"}">>

RECURSIVE SerElems(_)
SerElems(b) ==
    IF b = <<>> THEN <<>>
    ELSE IF Len(b) = 1 THEN SerEntry(b[1])
    ELSE SerEntry(b[1]) \o <<",">> \o SerElems(Tail(b))

\* serde_json::to_vec(&batch)
to_vec(b) == <<"[">> \o SerElems(b) \o <<"]">>

(***************************************************************************)
(* download_and_unzip after the response has arrived.  A body is a gzip    *)
(* container (gzip = TRUE) around a byte sequence, or bytes that are no    *)
(* gzip stream; BAD stands for a byte that is not valid UTF-8.             *)
(***************************************************************************)
BAD == "<ff>"

StatusOK == 200

GzDecode(body) == [ok |-> body.gzip, buffer |-> IF body.gzip THEN body.bytes ELSE <<>>]

FromUtf8(buffer) ==
    [ok |-> \A i \in 1..Len(buffer) : buffer[i] # BAD, text |-> buffer]

\* Lines 20-21 for the decoded bytes d, line 21 for the text u; ok = FALSE
\* stands for the panic of one of the unwraps.
TextLines(u) == [ok |-> u.ok, lines |-> IF u.ok THEN Lines(u.text) ELSE <<>>]

DecodedLines(d) ==
    IF d.ok THEN TextLines(FromUtf8(d.buffer)) ELSE [ok |-> FALSE, lines |-> <<>>]

\* Lines 17-21
Unzip(body) == DecodedLines(GzDecode(body))

\* Lines 104-117 after the download: parse every line, keep the English
\* entries; ok = FALSE when parse_cdx_line panics on some line.
ParseAll(lines) == [i \in 1..Len(lines) |-> parse_cdx_line(lines[i])]

EntriesOf(parsed) == [i \in 1..Len(parsed) |-> parsed[i].entry]

\* Variant of FilterParsed: a line that does not parse is skipped.
FilterParsed_SkipBad(parsed) ==
    [ok |-> TRUE,
     entries |-> SelectSeq(EntriesOf(parsed), LAMBDA e : keep(e))]

FilterParsed(parsed) ==
    [ok |-> \A i \in 1..Len(parsed) : parsed[i].ok,
     entries |-> SelectSeq(EntriesOf(parsed), keep)]

EnglishEntries(lines) == FilterParsed(ParseAll(lines))

(***************************************************************************)
(* Constants of the program and bounds of the model                        *)
(***************************************************************************)
BATCH_SIZE == 1000
RABBIT_MQ_TIMEOUT == 20
CC_QUEUE_NAME == "batches"
BaseUrl == "https://data.commoncrawl.org/"
IndexUrl == [host |-> BaseUrl, file |-> "crawl-data/CC-MAIN-2024-30/cc-index.paths.gz", path |-> <<>>]
\* format!("https://data.commoncrawl.org/{path}")
CdxUrl(path) == [host |-> BaseUrl, file |-> "", path |-> path]

\* The capacity main runs with in the model: BATCH_SIZE scaled down so that
\* files of up to MaxLines lines fill several batches.
ScaledBatchSize == 2
MaxPaths == 2
MaxLines == 4
\* Bounds of the calls of chunks on its own.
MaxEntries == 5
MaxCapacity == 3

(***************************************************************************)
(* What the HTTP server may hold: path indexes and CDX files               *)
(***************************************************************************)
SeqsUpTo(S, n) == UNION {[1..k -> S] : k \in 0..n}

RECURSIVE JoinLines(_)
JoinLines(ls) == IF ls = <<>> THEN <<>> ELSE Head(ls) \o <<NL>> \o JoinLines(Tail(ls))

P_other == <<"c", "d", "x", "_", "9">>
P_cdx0 == <<"c", "d", "x", "-", "0">>
P_cdx1 == <<"i", "/", "c", "d", "x", "-", "1">>
PathSet == {P_other, P_cdx0, P_cdx1}

IndexBodies ==
    {[gzip |-> TRUE, bytes |-> JoinLines(ps)] : ps \in SeqsUpTo(PathSet, MaxPaths)}

BadBodies == {[gzip |-> FALSE, bytes |-> <<"x">>], [gzip |-> TRUE, bytes |-> <<"x", BAD>>]}

JMember(k, v) == <<Q>> \o k \o <<Q, ":", SP, Q>> \o v \o <<Q>>

PayBase ==
    JMember(K_url, <<"u">>) \o <<",", SP>> \o JMember(<<"m", "i", "m", "e">>, <<"t">>)
    \o <<",", SP>> \o JMember(K_status, <<"2">>)
    \o <<",", SP>> \o JMember(K_length, <<"1">>)
    \o <<",", SP>> \o JMember(K_offset, <<"0">>)
    \o <<",", SP>> \o JMember(K_filename, <<"f">>)

L_ind_eng == <<"i", "n", "d", ",", "e", "n", "g">>
L_ind == <<"i", "n", "d">>

\* The kinds of CDX line: English, another language, no languages member,
\* and a line whose metadata lacks required members.
Kinds == {"E", "X", "N", "B"}

Payload(kind) ==
    IF kind = "E" THEN <<"{">> \o PayBase \o <<",", SP>> \o JMember(K_languages, L_ind_eng) \o <<"}">>
    ELSE IF kind = "X" THEN <<"{">> \o PayBase \o <<",", SP>> \o JMember(K_languages, L_ind) \o <<"}">>
    ELSE IF kind = "N" THEN <<"{">> \o PayBase \o <<"}">>
    ELSE <<"{">> \o JMember(K_url, <<"u">>) \o <<"}">>

DigitSeq == <<"0", "1", "2", "3", "4", "5", "6", "7", "8", "9">>

\* The i-th line of a file: its surt_url names its position.
CdxLine(kind, i) ==
    <<"k", DigitSeq[i + 1], ")", "/", SP, "2", "0", "2", "4", SP>> \o Payload(kind)

\* The kinds of line of the files the run downloads.
FileKinds == {"E", "N", "B"}

CdxBodies ==
    {[gzip |-> TRUE, bytes |-> JoinLines([i \in 1..Len(ks) |-> CdxLine(ks[i], i)])] :
        ks \in SeqsUpTo(FileKinds, MaxLines)}

Statuses == {StatusOK, 204, 404}

(***************************************************************************)
(* State of a run of main                                                  *)
(***************************************************************************)
VARIABLES
    fn,                   \* argument and result of a function applied on its own
    env,                  \* RABBITMQ_CONNECTION_STRING is set
    pc,                   \* where main is; the name of an operation = awaiting it
    responds,             \* the peer answers the operation awaited
    timer,                \* seconds of the tokio timeout around it, 0 = none
    publisher,            \* rabbit_conn, channel (with its prefetch), queue
    url,                  \* argument of the running download_and_unzip
    paths,                \* the path index
    idx,                  \* paths taken from the iterator of the for loop
    english_cdx_entries,
    nbatch,               \* chunks taken from the chunks iterator
    payload,              \* bytes handed to the basic_publish awaited
    error,                \* the error chain the run died with
    trace,                \* operations issued and their outcomes, in order
    fetched,              \* URLs requested
    statuses,             \* status codes of the responses received
    bodies,               \* response bodies read
    sent,                 \* batches accepted by the broker
    published,            \* messages accepted by the broker
    broker,               \* the broker: the queue, its messages, restarts
    stdout

vars ==
    <<fn, env, pc, responds, timer, publisher, url, paths, idx, english_cdx_entries,
      nbatch, payload, error, trace, fetched, statuses, bodies, sent, published, broker,
      stdout>>

\* QueueDeclareOptions::default() of line 65 and BasicProperties::default()
\* of line 126: every flag is off, no delivery mode is set.
QueueDeclareOptionsDefault ==
    [passive |-> FALSE, durable |-> FALSE, exclusive |-> FALSE, auto_delete |-> FALSE,
     nowait |-> FALSE]
BasicPropertiesDefault == [delivery_mode |-> "unset"]

NoQueue == [name |-> "", options |-> QueueDeclareOptionsDefault]

BrokerSetupOps == {"connect", "create_channel", "basic_qos", "queue_declare"}
BrokerOps == BrokerSetupOps \cup {"basic_publish"}
HttpOps == {"send", "bytes"}
NetworkOps == BrokerOps \cup HttpOps

Ev(kind, op) == [kind |-> kind, op |-> op]

\* The last event of the trace is e.
LastEv(e) == trace # <<>> /\ trace[Len(trace)] = e

NoUrl == [host |-> "", file |-> "", path |-> <<>>]

Out(what, path, n) == [what |-> what, path |-> path, n |-> n]

PublisherState ==
    IF ~publisher.conn THEN "Disconnected"
    ELSE IF ~publisher.channel THEN "Connected"
    ELSE IF publisher.prefetch # 1 THEN "ChannelReady"
    ELSE IF publisher.queue # CC_QUEUE_NAME THEN "Configured"
    ELSE "Ready"

NoFn == [arg |-> <<>>, applied |-> FALSE, result |-> <<>>]

\* main has not started.
MainAt(p) ==
    /\ pc = p
    /\ responds = FALSE
    /\ timer = 0
    /\ publisher = [conn |-> FALSE, channel |-> FALSE, prefetch |-> 0, queue |-> ""]
    /\ url = NoUrl
    /\ paths = <<>>
    /\ idx = 0
    /\ english_cdx_entries = <<>>
    /\ nbatch = 0
    /\ payload = <<>>
    /\ error = <<>>
    /\ trace = <<>>
    /\ fetched = <<>>
    /\ bodies = <<>>
    /\ sent = <<>>
    /\ published = <<>>
    /\ broker = [alive |-> TRUE, restarted |-> FALSE, queue |-> NoQueue, messages |-> <<>>]
    /\ statuses = <<>>
    /\ stdout = <<>>

Init ==
    /\ fn = NoFn
    /\ env \in BOOLEAN
    /\ MainAt("start")

\* Which operations run inside tokio::time::timeout(RABBIT_MQ_TIMEOUT, ..).
TimeoutOf(op) == IF op \in BrokerSetupOps THEN RABBIT_MQ_TIMEOUT ELSE 0

\* Start awaiting operation op, after the events evs.
Await(op, evs) ==
    /\ pc' = op
    /\ responds' \in BOOLEAN
    /\ timer' = TimeoutOf(op)
    /\ trace' = trace \o evs \o <<Ev("issue", op)>>

\* A panic (an unwrap or expect that fails) ends the process.
Panic(chain, evs) ==
    /\ pc' = "failed"
    /\ responds' = FALSE
    /\ timer' = 0
    /\ error' = chain
    /\ trace' = trace \o evs

\* No operation awaited: go on at position p.
Goto(p, evs) ==
    /\ pc' = p
    /\ responds' = FALSE
    /\ timer' = 0
    /\ trace' = trace \o evs

Elapsed == "deadline has elapsed"
LapinError == "lapin::Error"

TimeoutContext(op) ==
    IF op = "connect" THEN "Timed out while trying to connect to RabbitMQ"
    ELSE IF op = "create_channel" THEN "Timed out while trying to create a RabbitMQ channel"
    ELSE IF op = "basic_qos" THEN "Timed out while trying to set QoS on the channel"
    ELSE "Timed out while trying to declare a RabbitMQ queue"

FailureContext(op) ==
    IF op = "connect" THEN <<>>
    ELSE IF op = "create_channel" THEN <<"Failed to create RabbitMQ channel">>
    ELSE IF op = "basic_qos" THEN <<"Failed to set QoS on the channel">>
    ELSE IF op = "queue_declare" THEN <<"Failed to declare RabbitMQ queue">>
    ELSE <<"rabbitmq basic publish">>

\* The error of an operation the timeout cut short, and of one the broker
\* answered with an error.
TimeoutError(op) == <<TimeoutContext(op), Elapsed>>
BrokerError(op) == FailureContext(op) \o <<LapinError>>

(***************************************************************************)
(* main, one action per step between two awaits                            *)
(***************************************************************************)
data ==
    <<url, paths, idx, english_cdx_entries, nbatch, payload, fetched, statuses, bodies,
      sent, published, broker, stdout>>

\* Variant of Start: main downloads the path index before it connects.
Start_FetchFirst ==
    /\ pc = "start"
    /\ url' = IndexUrl
    /\ fetched' = Append(fetched, IndexUrl)
    /\ Await("send", <<>>)
    /\ UNCHANGED <<fn, env, publisher, error, paths, idx, english_cdx_entries, nbatch,
                   payload, statuses, bodies, sent, published, broker, stdout>>

\* Line 92 and rabbitmq_connection up to its await (the expect of
\* get_rabbitmq_connection_string included).
Start ==
    /\ pc = "start"
    /\ IF env
       THEN Await("connect", <<>>) /\ UNCHANGED error
       ELSE Panic(<<"RABBITMQ_CONNECTION_STRING must be set.">>, <<>>)
    /\ UNCHANGED <<fn, env, publisher, data>>

\* Connection::connect answered Ok; rabbitmq_channel starts.
ConnectOk ==
    /\ pc = "connect" /\ responds
    /\ publisher' = [publisher EXCEPT !.conn = TRUE]
    /\ Await("create_channel", <<Ev("ok", "connect")>>)
    /\ UNCHANGED <<fn, env, error, data>>

CreateChannelOk ==
    /\ pc = "create_channel" /\ responds /\ broker.alive
    /\ publisher' = [publisher EXCEPT !.channel = TRUE]
    /\ Await("basic_qos", <<Ev("ok", "create_channel")>>)
    /\ UNCHANGED <<fn, env, error, data>>

\* Variant of BasicQosOk: rabbitmq_channel_with_queue returns the channel
\* without declaring the queue.
BasicQosOk_NoDeclare ==
    /\ pc = "basic_qos" /\ responds /\ broker.alive
    /\ publisher' = [publisher EXCEPT !.prefetch = 1]
    /\ url' = IndexUrl
    /\ fetched' = Append(fetched, IndexUrl)
    /\ Await("send", <<Ev("ok", "basic_qos")>>)
    /\ UNCHANGED <<fn, env, error, paths, idx, english_cdx_entries, nbatch, payload,
                   statuses, bodies, sent, published, broker, stdout>>

\* basic_qos(1, ..) answered Ok; rabbitmq_declare_queue starts.
BasicQosOk ==
    /\ pc = "basic_qos" /\ responds /\ broker.alive
    /\ publisher' = [publisher EXCEPT !.prefetch = 1]
    /\ Await("queue_declare", <<Ev("ok", "basic_qos")>>)
    /\ UNCHANGED <<fn, env, error, data>>

\* queue_declare answered Ok; main goes on to download the path index.
QueueDeclareOk ==
    /\ pc = "queue_declare" /\ responds /\ broker.alive
    /\ publisher' = [publisher EXCEPT !.queue = CC_QUEUE_NAME]
    /\ broker' = [broker EXCEPT !.queue = [name |-> CC_QUEUE_NAME,
                                           options |-> QueueDeclareOptionsDefault]]
    /\ url' = IndexUrl
    /\ fetched' = Append(fetched, IndexUrl)
    /\ Await("send", <<Ev("ok", "queue_declare")>>)
    /\ UNCHANGED <<fn, env, error, paths, idx, english_cdx_entries, nbatch, payload,
                   statuses, bodies, sent, published, stdout>>

\* Variant of SetupErr: the operation is issued again after the error.
SetupErr_Retry(op) ==
    /\ pc = op /\ responds
    /\ Await(op, <<Ev("err", op)>>)
    /\ UNCHANGED <<fn, env, publisher, error, data>>

\* The broker answered a set-up operation with an error: `?` and unwrap.
SetupErr(op) ==
    /\ pc = op /\ responds
    /\ Panic(BrokerError(op), <<Ev("err", op)>>)
    /\ UNCHANGED <<fn, env, publisher, data>>

\* tokio::time::timeout elapsed before the broker answered.
SetupTimeout(op) ==
    /\ pc = op /\ ~responds /\ timer > 0
    /\ Panic(TimeoutError(op), <<Ev("timeout", op)>>)
    /\ UNCHANGED <<fn, env, publisher, data>>

FetchFailed == "Failed to fetch the index file"

\* Variant of StatusAccepted: res.status().is_success()
StatusAccepted_Success(status) == status \in 200..299

\* Line 14: the one status download_and_unzip goes on with.
StatusAccepted(status) == status = StatusOK

\* client.get(url).send() failed: unwrap.
SendErr ==
    /\ pc = "send" /\ responds
    /\ Panic(<<"reqwest::Error">>, <<Ev("err", "send")>>)
    /\ UNCHANGED <<fn, env, publisher, data>>

\* The response head arrived: lines 14-27.
SendStatus ==
    /\ pc = "send" /\ responds
    /\ \E status \in Statuses :
         /\ statuses' = Append(statuses, status)
         /\ IF StatusAccepted(status)
            THEN /\ Await("bytes", <<Ev("ok", "send")>>)
                 /\ UNCHANGED <<error, stdout>>
            ELSE /\ stdout' = Append(stdout, Out(FetchFailed, <<>>, 0))
                 /\ Panic(<<FetchFailed>>, <<Ev("ok", "send"), Ev("err", "status")>>)
    /\ UNCHANGED <<fn, env, publisher, url, paths, idx, english_cdx_entries, nbatch,
                   payload, fetched, bodies, sent, published, broker>>

DecodePanic == "unwrap in download_and_unzip"
ParsePanic == "unwrap in parse_cdx_line"

\* res.bytes() failed: unwrap.
BytesErr ==
    /\ pc = "bytes" /\ responds
    /\ Panic(<<"reqwest::Error">>, <<Ev("err", "bytes")>>)
    /\ UNCHANGED <<fn, env, publisher, data>>

\* main with the result u of unzipping the path index.
IndexUnzipped(u) ==
    IF u.ok
    THEN /\ paths' = u.lines
         /\ Goto("scan", <<Ev("ok", "bytes"), Ev("ok", "decode")>>)
         /\ UNCHANGED error
    ELSE /\ Panic(<<DecodePanic>>, <<Ev("ok", "bytes"), Ev("err", "decode")>>)
         /\ UNCHANGED paths

\* The body of the path index arrived: lines 16-21, then the for loop.
IndexBody ==
    /\ pc = "bytes" /\ responds /\ url = IndexUrl
    /\ \E body \in IndexBodies \cup BadBodies :
         /\ bodies' = Append(bodies, body)
         /\ IndexUnzipped(Unzip(body))
    /\ UNCHANGED <<fn, env, publisher, url, idx, english_cdx_entries, nbatch, payload,
                   fetched, statuses, sent, published, broker, stdout>>

\* main with the result r of parsing and filtering the lines of the file.
CdxParsed(r) ==
    IF r.ok
    THEN /\ english_cdx_entries' = r.entries
         /\ Goto("publish", <<Ev("ok", "bytes"), Ev("ok", "decode")>>)
         /\ UNCHANGED error
    ELSE /\ Panic(<<ParsePanic>>,
                  <<Ev("ok", "bytes"), Ev("ok", "decode"), Ev("err", "parse")>>)
         /\ UNCHANGED english_cdx_entries

\* main with the result u of unzipping the CDX file.
CdxUnzipped(u) ==
    IF u.ok
    THEN CdxParsed(EnglishEntries(u.lines))
    ELSE /\ Panic(<<DecodePanic>>, <<Ev("ok", "bytes"), Ev("err", "decode")>>)
         /\ UNCHANGED english_cdx_entries

\* The body of the CDX file arrived: lines 16-21, then lines 108-117.
CdxBody ==
    /\ pc = "bytes" /\ responds /\ url # IndexUrl
    /\ \E body \in CdxBodies \cup BadBodies :
         /\ bodies' = Append(bodies, body)
         /\ CdxUnzipped(Unzip(body))
    /\ UNCHANGED <<fn, env, publisher, url, paths, idx, nbatch, payload, fetched,
                   statuses, sent, published, broker, stdout>>

\* Line 103
IsCdxPath(path) == Contains(path, W_cdx)

\* Variant of AfterCdxFile: continue instead of break.
AfterCdxFile_Continue == "scan"

\* Line 132: where main goes after the batches of a CDX file.
AfterCdxFile == "done"

\* Head of the for loop over paths (lines 102-105 and 134).
Scan ==
    /\ pc = "scan"
    /\ IF idx = Len(paths)
       THEN /\ Goto("done", <<>>)
            /\ UNCHANGED <<idx, url, fetched, stdout>>
       ELSE LET path == paths[idx + 1]
            IN /\ idx' = idx + 1
               /\ IF IsCdxPath(path)
                  THEN /\ url' = CdxUrl(path)
                       /\ fetched' = Append(fetched, CdxUrl(path))
                       /\ Await("send", <<>>)
                       /\ UNCHANGED stdout
                  ELSE /\ stdout' = Append(stdout, Out("path", path, 0))
                       /\ Goto("scan", <<>>)
                       /\ UNCHANGED <<url, fetched>>
    /\ UNCHANGED <<fn, env, publisher, error, paths, english_cdx_entries, nbatch,
                   payload, statuses, bodies, sent, published, broker>>

\* Variant of PublishNext: the publish is spawned as a task of its own and
\* the loop goes on without awaiting it.
PublishNext_Spawn ==
    /\ pc = "publish"
    /\ IF nbatch < Len(Chunks(english_cdx_entries, ScaledBatchSize))
       THEN /\ nbatch' = nbatch + 1
            /\ stdout' = Append(stdout, Out("Sending a batch", <<>>, 0))
            /\ payload' = to_vec(Chunks(english_cdx_entries, ScaledBatchSize)[nbatch + 1])
            /\ Goto("publish", <<Ev("issue", "basic_publish")>>)
       ELSE /\ Goto(AfterCdxFile, <<>>)
            /\ UNCHANGED <<nbatch, stdout, payload>>
    /\ UNCHANGED <<fn, env, publisher, error, url, paths, idx, english_cdx_entries,
                   fetched, statuses, bodies, sent, published, broker>>

\* Head of the for loop over the chunks (lines 118-127), and the break.
PublishNext ==
    /\ pc = "publish"
    /\ LET cs == Chunks(english_cdx_entries, ScaledBatchSize)
       IN IF nbatch < Len(cs)
          THEN /\ nbatch' = nbatch + 1
               /\ stdout' = Append(stdout, Out("Sending a batch", <<>>, Len(cs[nbatch + 1])))
               /\ payload' = to_vec(cs[nbatch + 1])
               /\ Await("basic_publish", <<>>)
          ELSE /\ Goto(AfterCdxFile, <<>>)
               /\ UNCHANGED <<nbatch, stdout, payload>>
    /\ UNCHANGED <<fn, env, publisher, error, url, paths, idx, english_cdx_entries,
                   fetched, statuses, bodies, sent, published, broker>>

\* Variant of PublishOk: the PublisherConfirm basic_publish returned is
\* awaited before the loop goes on.
PublishOk_AwaitConfirm ==
    /\ pc = "basic_publish" /\ responds /\ broker.alive
    /\ published' = Append(published,
           [exchange |-> "", routing_key |-> CC_QUEUE_NAME, body |-> payload])
    /\ broker' = [broker EXCEPT !.messages =
                      Append(@, [body |-> payload, properties |-> BasicPropertiesDefault])]
    /\ sent' = Append(sent, Chunks(english_cdx_entries, ScaledBatchSize)[nbatch])
    /\ Await("confirm", <<Ev("ok", "basic_publish")>>)
    /\ UNCHANGED <<fn, env, publisher, error, url, paths, idx, english_cdx_entries,
                   nbatch, payload, fetched, statuses, bodies, stdout>>

\* basic_publish answered Ok.
PublishOk ==
    /\ pc = "basic_publish" /\ responds /\ broker.alive
    /\ published' = Append(published,
           [exchange |-> "", routing_key |-> CC_QUEUE_NAME, body |-> payload])
    /\ broker' = [broker EXCEPT !.messages =
                      IF broker.queue.name = CC_QUEUE_NAME
                      THEN Append(@, [body |-> payload,
                                      properties |-> BasicPropertiesDefault])
                      ELSE @]
    /\ sent' = Append(sent, Chunks(english_cdx_entries, ScaledBatchSize)[nbatch])
    /\ Goto("publish", <<Ev("ok", "basic_publish")>>)
    /\ UNCHANGED <<fn, env, publisher, error, url, paths, idx, english_cdx_entries,
                   nbatch, payload, fetched, statuses, bodies, stdout>>

\* Variant of PublishErr: the error is logged and the loop goes on with the
\* next batch.
PublishErr_Skip ==
    /\ pc = "basic_publish" /\ responds
    /\ Goto("publish", <<Ev("err", "basic_publish")>>)
    /\ UNCHANGED <<fn, env, publisher, error, data>>

\* basic_publish answered with an error: context and unwrap.
PublishErr ==
    /\ pc = "basic_publish" /\ responds
    /\ Panic(BrokerError("basic_publish"), <<Ev("err", "basic_publish")>>)
    /\ UNCHANGED <<fn, env, publisher, data>>

main_state ==
    <<pc, responds, timer, publisher, url, paths, idx, english_cdx_entries, nbatch,
      payload, error, trace, fetched, statuses, bodies, sent, published, stdout>>

\* The broker restarts while the producer is connected or after its run:
\* the connection is lost, and the broker keeps the durable queues and in
\* them the messages published with delivery mode persistent.
BrokerRestart ==
    /\ publisher.conn /\ ~broker.restarted
    /\ broker' = [alive |-> FALSE, restarted |-> TRUE,
                  queue |-> IF broker.queue.options.durable THEN broker.queue
                            ELSE NoQueue,
                  messages |-> IF broker.queue.options.durable
                               THEN SelectSeq(broker.messages,
                                        LAMBDA m : m.properties.delivery_mode = "persistent")
                               ELSE <<>>]
    /\ UNCHANGED <<fn, env, main_state>>

Next ==
    \/ Start
    \/ ConnectOk
    \/ CreateChannelOk
    \/ BasicQosOk
    \/ QueueDeclareOk
    \/ \E op \in BrokerSetupOps : SetupErr(op)
    \/ \E op \in BrokerSetupOps : SetupTimeout(op)
    \/ SendErr
    \/ SendStatus
    \/ BytesErr
    \/ IndexBody
    \/ CdxBody
    \/ Scan
    \/ PublishNext
    \/ PublishOk
    \/ PublishErr
    \/ BrokerRestart

Spec == Init /\ [][Next]_vars

\* The runs in which every HTTP request gets its response: send and bytes
\* are always answered. The runtime polls main whenever it can go on.
NextLive == Next /\ (pc' \in HttpOps => responds')

SpecLive == Init /\ [][NextLive]_vars /\ WF_vars(NextLive)

(***************************************************************************)
(* slice::chunks on its own: line 118 for any slice and any capacity       *)
(***************************************************************************)
main_vars ==
    <<env, pc, responds, timer, publisher, url, paths, idx, english_cdx_entries,
      nbatch, payload, error, trace, fetched, statuses, bodies, sent, published, broker,
      stdout>>

FnCall(arg) == [arg |-> arg, applied |-> FALSE, result |-> <<>>]

\* The calls: short slices over two values with small capacities, and
\* 2500 numbered entries with the capacity of the program.
ChunksCalls ==
    {[entries |-> es, n |-> n] : es \in SeqsUpTo({0, 1}, MaxEntries), n \in 1..MaxCapacity}
    \cup {[entries |-> [i \in 1..2500 |-> i], n |-> BATCH_SIZE]}

InitBatch ==
    /\ fn \in {FnCall(c) : c \in ChunksCalls}
    /\ env = TRUE
    /\ MainAt("idle")

ApplyChunks ==
    /\ ~fn.applied
    /\ fn' = [fn EXCEPT !.applied = TRUE, !.result = Chunks(fn.arg.entries, fn.arg.n)]
    /\ UNCHANGED main_vars

NextBatch == ApplyChunks

SpecBatch == InitBatch /\ [][NextBatch]_vars

(***************************************************************************)
(* parse_cdx_line and the filter on their own, as the test                 *)
(* can_parse_cdx_file applies them: content.lines().map(parse_cdx_line)    *)
(***************************************************************************)
\* The content of the test can_parse_cdx_file.
FixtureLine1 ==
    <<"0", ",", "1", "0", "0", ",", "2", "2", ",", "1", "6", "5", ")", "/", SP, "2", "0", "2",
      "4", "0", "7", "2", "2", "1", "2", "0", "7", "5", "6", SP, "{", Q, "u", "r", "l", Q, ":",
      SP, Q, "h", "t", "t", "p", ":", "/", "/", "1", "6", "5", ".", "2", "2", ".", "1", "0",
      "0", ".", "0", "/", Q, ",", SP, Q, "m", "i", "m", "e", Q, ":", SP, Q, "t", "e", "x", "t",
      "/", "h", "t", "m", "l", Q, ",", SP, Q, "m", "i", "m", "e", "-", "d", "e", "t", "e", "c",
      "t", "e", "d", Q, ":", SP, Q, "t", "e", "x", "t", "/", "h", "t", "m", "l", Q, ",", SP, Q,
      "s", "t", "a", "t", "u", "s", Q, ":", SP, Q, "3", "0", "1", Q, ",", SP, Q, "d", "i", "g",
      "e", "s", "t", Q, ":", SP, Q, "D", "C", "N", "Y", "N", "I", "F", "G", "5", "S", "B", "R",
      "C", "V", "S", "5", "P", "C", "U", "Y", "4", "Y", "Y", "2", "U", "M", "2", "W", "A", "Q",
      "4", "R", Q, ",", SP, Q, "l", "e", "n", "g", "t", "h", Q, ":", SP, Q, "6", "8", "9", Q,
      ",", SP, Q, "o", "f", "f", "s", "e", "t", Q, ":", SP, Q, "3", "4", "9", "9", Q, ",", SP,
      Q, "f", "i", "l", "e", "n", "a", "m", "e", Q, ":", SP, Q, "c", "r", "a", "w", "l", "-",
      "d", "a", "t", "a", "/", "C", "C", "-", "M", "A", "I", "N", "-", "2", "0", "2", "4", "-",
      "3", "0", "/", "s", "e", "g", "m", "e", "n", "t", "s", "/", "1", "7", "2", "0", "7", "6",
      "3", "5", "1", "7", "8", "4", "6", ".", "7", "3", "/", "c", "r", "a", "w", "l", "d", "i",
      "a", "g", "n", "o", "s", "t", "i", "c", "s", "/", "C", "C", "-", "M", "A", "I", "N", "-",
      "2", "0", "2", "4", "0", "7", "2", "2", "0", "9", "5", "0", "3", "9", "-", "2", "0", "2",
      "4", "0", "7", "2", "2", "1", "2", "5", "0", "3", "9", "-", "0", "0", "4", "4", "3", ".",
      "w", "a", "r", "c", ".", "g", "z", Q, ",", SP, Q, "r", "e", "d", "i", "r", "e", "c", "t",
      Q, ":", SP, Q, "h", "t", "t", "p", "s", ":", "/", "/", "1", "5", "7", ".", "2", "4", "5",
      ".", "5", "5", ".", "7", "1", "/", Q, "}">>

FixtureLine2 ==
    <<"0", ",", "1", "0", "0", ",", "2", "2", ",", "1", "6", "5", ")", "/", "r", "o", "b", "o",
      "t", "s", ".", "t", "x", "t", SP, "2", "0", "2", "4", "0", "7", "2", "2", "1", "2", "0",
      "7", "5", "5", SP, "{", Q, "u", "r", "l", Q, ":", SP, Q, "h", "t", "t", "p", ":", "/",
      "/", "1", "6", "5", ".", "2", "2", ".", "1", "0", "0", ".", "0", "/", "r", "o", "b", "o",
      "t", "s", ".", "t", "x", "t", Q, ",", SP, Q, "m", "i", "m", "e", Q, ":", SP, Q, "t", "e",
      "x", "t", "/", "h", "t", "m", "l", Q, ",", SP, Q, "m", "i", "m", "e", "-", "d", "e", "t",
      "e", "c", "t", "e", "d", Q, ":", SP, Q, "t", "e", "x", "t", "/", "h", "t", "m", "l", Q,
      ",", SP, Q, "s", "t", "a", "t", "u", "s", Q, ":", SP, Q, "3", "0", "1", Q, ",", SP, Q,
      "d", "i", "g", "e", "s", "t", Q, ":", SP, Q, "L", "Y", "E", "E", "2", "B", "X", "O", "N",
      "4", "M", "C", "Q", "C", "P", "5", "F", "D", "V", "D", "N", "I", "L", "O", "W", "B", "K",
      "C", "Z", "Z", "6", "G", Q, ",", SP, Q, "l", "e", "n", "g", "t", "h", Q, ":", SP, Q, "7",
      "0", "0", Q, ",", SP, Q, "o", "f", "f", "s", "e", "t", Q, ":", SP, Q, "4", "6", "5", "6",
      Q, ",", SP, Q, "f", "i", "l", "e", "n", "a", "m", "e", Q, ":", SP, Q, "c", "r", "a", "w",
      "l", "-", "d", "a", "t", "a", "/", "C", "C", "-", "M", "A", "I", "N", "-", "2", "0", "2",
      "4", "-", "3", "0", "/", "s", "e", "g", "m", "e", "n", "t", "s", "/", "1", "7", "2", "0",
      "7", "6", "3", "5", "1", "7", "8", "4", "6", ".", "7", "3", "/", "r", "o", "b", "o", "t",
      "s", "t", "x", "t", "/", "C", "C", "-", "M", "A", "I", "N", "-", "2", "0", "2", "4", "0",
      "7", "2", "2", "0", "9", "5", "0", "3", "9", "-", "2", "0", "2", "4", "0", "7", "2", "2",
      "1", "2", "5", "0", "3", "9", "-", "0", "0", "4", "1", "0", ".", "w", "a", "r", "c", ".",
      "g", "z", Q, ",", SP, Q, "r", "e", "d", "i", "r", "e", "c", "t", Q, ":", SP, Q, "h", "t",
      "t", "p", "s", ":", "/", "/", "1", "5", "7", ".", "2", "4", "5", ".", "5", "5", ".", "7",
      "1", "/", "r", "o", "b", "o", "t", "s", ".", "t", "x", "t", Q, "}">>

FixtureLine3 ==
    <<"0", ",", "1", "0", "0", ",", "5", "9", ",", "1", "3", "9", ")", "/", SP, "2", "0", "2",
      "4", "0", "7", "2", "3", "2", "1", "3", "5", "2", "1", SP, "{", Q, "u", "r", "l", Q, ":",
      SP, Q, "h", "t", "t", "p", "s", ":", "/", "/", "1", "3", "9", ".", "5", "9", ".", "1",
      "0", "0", ".", "0", "/", Q, ",", SP, Q, "m", "i", "m", "e", Q, ":", SP, Q, "t", "e", "x",
      "t", "/", "h", "t", "m", "l", Q, ",", SP, Q, "m", "i", "m", "e", "-", "d", "e", "t", "e",
      "c", "t", "e", "d", Q, ":", SP, Q, "t", "e", "x", "t", "/", "h", "t", "m", "l", Q, ",",
      SP, Q, "s", "t", "a", "t", "u", "s", Q, ":", SP, Q, "2", "0", "0", Q, ",", SP, Q, "d",
      "i", "g", "e", "s", "t", Q, ":", SP, Q, "5", "J", "O", "Q", "M", "M", "S", "N", "M", "6",
      "N", "7", "U", "C", "L", "G", "G", "Y", "X", "D", "S", "P", "S", "B", "3", "F", "Y", "A",
      "Q", "S", "2", "C", Q, ",", SP, Q, "l", "e", "n", "g", "t", "h", Q, ":", SP, Q, "1", "6",
      "6", "5", "0", Q, ",", SP, Q, "o", "f", "f", "s", "e", "t", Q, ":", SP, Q, "6", "4", "0",
      "1", "6", "1", "7", "2", Q, ",", SP, Q, "f", "i", "l", "e", "n", "a", "m", "e", Q, ":",
      SP, Q, "c", "r", "a", "w", "l", "-", "d", "a", "t", "a", "/", "C", "C", "-", "M", "A",
      "I", "N", "-", "2", "0", "2", "4", "-", "3", "0", "/", "s", "e", "g", "m", "e", "n", "t",
      "s", "/", "1", "7", "2", "0", "7", "6", "3", "5", "1", "8", "1", "1", "5", ".", "8", "2",
      "/", "w", "a", "r", "c", "/", "C", "C", "-", "M", "A", "I", "N", "-", "2", "0", "2", "4",
      "0", "7", "2", "3", "1", "9", "4", "2", "0", "8", "-", "2", "0", "2", "4", "0", "7", "2",
      "3", "2", "2", "4", "2", "0", "8", "-", "0", "0", "2", "7", "9", ".", "w", "a", "r", "c",
      ".", "g", "z", Q, ",", SP, Q, "c", "h", "a", "r", "s", "e", "t", Q, ":", SP, Q, "U", "T",
      "F", "-", "8", Q, ",", SP, Q, "l", "a", "n", "g", "u", "a", "g", "e", "s", Q, ":", SP, Q,
      "i", "n", "d", ",", "e", "n", "g", Q, "}">>

Fixture == FixtureLine1 \o <<NL>> \o FixtureLine2 \o <<NL>> \o FixtureLine3

RECURSIVE Join(_, _)
Join(ms, sep) ==
    IF ms = <<>> THEN <<>>
    ELSE IF Len(ms) = 1 THEN ms[1]
    ELSE ms[1] \o sep \o Join(Tail(ms), sep)

\* A member "k": raw, with or without a space after the colon.
Member(k, raw, sp) == <<Q>> \o k \o <<Q, ":">> \o sp \o raw
StrMember(k, v, sp) == Member(k, <<Q>> \o v \o <<Q>>, sp)

\* The members named like the String fields of CdxMetadata: all five, all
\* five with spaces in a value, all but filename, status as a number, url
\* twice.
RequiredOpts(sp) ==
    {<<StrMember(K_url, <<"u", SP, "v">>, sp), StrMember(K_status, <<"2">>, sp),
       StrMember(K_length, <<"1">>, sp), StrMember(K_offset, <<"0">>, sp),
       StrMember(K_filename, <<"f", SP, SP, "g">>, sp)>>} \cup
    {<<StrMember(K_url, <<"u">>, sp), StrMember(K_status, <<"2">>, sp),
       StrMember(K_length, <<"1">>, sp), StrMember(K_offset, <<"0">>, sp),
       StrMember(K_filename, <<"f">>, sp)>>,
     <<StrMember(K_url, <<"u">>, sp), StrMember(K_status, <<"2">>, sp),
       StrMember(K_length, <<"1">>, sp), StrMember(K_offset, <<"0">>, sp)>>,
     <<StrMember(K_url, <<"u">>, sp), Member(K_status, <<"3", "0", "1">>, sp),
       StrMember(K_length, <<"1">>, sp), StrMember(K_offset, <<"0">>, sp),
       StrMember(K_filename, <<"f">>, sp)>>,
     <<StrMember(K_url, <<"u">>, sp), StrMember(K_url, <<"v">>, sp),
       StrMember(K_status, <<"2">>, sp), StrMember(K_length, <<"1">>, sp),
       StrMember(K_offset, <<"0">>, sp), StrMember(K_filename, <<"f">>, sp)>>}

\* Members the struct has no field for.
ExtraOpts(sp) ==
    {<<>>,
     <<StrMember(<<"m", "i", "m", "e">>, <<"t">>, sp)>>,
     <<Member(<<"n">>, <<"7">>, sp), StrMember(<<"m", "i", "m", "e">>, <<"t", SP, "x">>, sp)>>}

LanguagesOpts(sp) ==
    {<<>>,
     <<StrMember(K_languages, L_ind_eng, sp)>>,
     <<StrMember(K_languages, L_ind, sp)>>,
     <<StrMember(K_languages, W_eng, sp)>>,
     <<StrMember(K_languages, <<"e", "n", "g", "x">>, sp)>>,
     <<StrMember(K_languages, <<"e", "n", ",", "g">>, sp)>>,
     <<StrMember(K_languages, <<>>, sp)>>,
     <<Member(K_languages, W_null, sp)>>,
     <<Member(K_languages, <<"5">>, sp)>>}

Object(ms, sp) == <<"{">> \o Join(ms, <<",">> \o sp) \o <<"}">>

ParsePayloads ==
    UNION {{Object(r \o x \o l, sp) :
               r \in RequiredOpts(sp), x \in ExtraOpts(sp), l \in LanguagesOpts(sp)} :
           sp \in {<<>>, <<SP>>}}

LinePrefix == <<"k", ")", "/", SP, "2", "0", "2", "4", SP>>

\* Lines that are no three parts with a JSON object as the third.
MalformedLines ==
    {<<>>,
     <<"k">>,
     <<"k", SP, "7">>,
     <<"k", SP, "7", SP>>,
     <<"k", SP, SP, "7", SP>> \o Payload("E"),
     <<"k", SP, SP>> \o Payload("E"),
     <<"k", SP, SP>> \o Object(<<StrMember(K_url, <<"u">>, <<>>),
                                  StrMember(K_status, <<"2">>, <<>>),
                                  StrMember(K_length, <<"1">>, <<>>),
                                  StrMember(K_offset, <<"0">>, <<>>),
                                  StrMember(K_filename, <<"f">>, <<>>)>>, <<>>),
     <<SP, "7", SP>> \o Payload("N"),
     <<"k", "\t", "7", "\t">> \o Payload("E"),
     LinePrefix \o <<"x", "y", "z">>,
     LinePrefix \o <<"{", Q, "u", "r", "l", Q, ":", Q, "u">>,
     LinePrefix \o Payload("E") \o <<SP, "x">>,
     LinePrefix \o <<"{", Q, "u", "r", "l", Q, ":", Q, "u", Q, ",", "}">>}

ParseTexts ==
    {LinePrefix \o p : p \in ParsePayloads}
    \cup MalformedLines
    \cup {JoinLines(<<CdxLine(a, 1), CdxLine(b, 2)>>) : a, b \in Kinds}
    \cup {Fixture}

InitParse ==
    /\ fn \in {FnCall(t) : t \in ParseTexts}
    /\ env = TRUE
    /\ MainAt("idle")

\* Lines 108-117 on the lines of the text.
ApplyParse ==
    /\ ~fn.applied
    /\ fn' = [fn EXCEPT !.applied = TRUE,
                        !.result = [parsed |-> ParseAll(Lines(fn.arg)),
                                    english |-> EnglishEntries(Lines(fn.arg))]]
    /\ UNCHANGED main_vars

NextParse == ApplyParse

SpecParse == InitParse /\ [][NextParse]_vars

(***************************************************************************)
(* Properties                                                              *)
(***************************************************************************)
RECURSIVE Concat(_)
Concat(ss) == IF ss = <<>> THEN <<>> ELSE Head(ss) \o Concat(Tail(ss))

\* Every issue of operation op in the trace comes after an Ok of prev.
IssuedOnlyAfterOk(op, prev) ==
    \A i \in 1..Len(trace) :
        trace[i] = Ev("issue", op) => \E j \in 1..(i - 1) : trace[j] = Ev("ok", prev)

\* C1: the publisher goes Disconnected -> Connected -> ChannelReady ->
\* Configured -> Ready: create_channel is issued only after connect
\* succeeded, basic_qos only after create_channel, queue_declare only after
\* basic_qos, basic_publish only after queue_declare; while an operation is
\* awaited the publisher is in the state that operation starts from, and
\* after a successful publish, and at the head of the batch loop, it is Ready.
C1_PublisherStateMachine ==
    /\ IssuedOnlyAfterOk("create_channel", "connect")
    /\ IssuedOnlyAfterOk("basic_qos", "create_channel")
    /\ IssuedOnlyAfterOk("queue_declare", "basic_qos")
    /\ IssuedOnlyAfterOk("basic_publish", "queue_declare")
    /\ pc = "connect" => PublisherState = "Disconnected"
    /\ pc = "create_channel" => PublisherState = "Connected"
    /\ pc = "basic_qos" => PublisherState = "ChannelReady" /\ publisher.prefetch = 0
    /\ pc = "queue_declare" => PublisherState = "Configured" /\ publisher.prefetch = 1
    /\ pc = "basic_publish" => PublisherState = "Ready"
    /\ pc = "publish" => PublisherState = "Ready"
    /\ LastEv(Ev("ok", "basic_publish")) =>
          PublisherState = "Ready" /\ pc \in {"publish", "done"}

\* C1 witness: a second publish is awaited after a first one succeeded.
C1_Witness ==
    /\ pc = "basic_publish"
    /\ Len(published) = 1
    /\ PublisherState = "Ready"

\* The entries of the lines that pass the language filter, in line order.
\* pat occurs in s.
HasSub(s, pat) == \E i \in 1..(Len(s) - Len(pat) + 1) : SubSeq(s, i, i + Len(pat) - 1) = pat

HasEng(l) == l # <<>> /\ HasSub(l[1], W_eng)

OnlyEnglish(e) == IF HasEng(e.metadata.languages) THEN <<e>> ELSE <<>>

RECURSIVE FilteredEntries(_)
FilteredEntries(ls) ==
    IF ls = <<>> THEN <<>>
    ELSE OnlyEnglish(parse_cdx_line(Head(ls)).entry) \o FilteredEntries(Tail(ls))

\* The run ended normally after it processed a CDX file.
CompletedWithFile == pc = "done" /\ Len(bodies) = 2

\* C2: on a run that completes without error, the batches published, in
\* publish order and concatenated, are exactly the parsed lines of the CDX
\* file that pass the language filter, in file order; every message is the
\* JSON encoding of its batch, sent to the queue.
C2_PublishedInSourceOrder ==
    /\ Len(published) = Len(sent)
    /\ \A k \in 1..Len(sent) :
          published[k] = [exchange |-> "", routing_key |-> CC_QUEUE_NAME,
                          body |-> to_vec(sent[k])]
    /\ CompletedWithFile =>
          Concat(sent) = FilteredEntries(Lines(bodies[2].bytes))
    /\ (pc = "done" /\ Len(bodies) < 2) => sent = <<>>

\* C2 witness: a completed run that published several batches from a file
\* of which some lines were filtered out.
C2_Witness ==
    /\ CompletedWithFile
    /\ Len(sent) >= 2
    /\ Len(Concat(sent)) < Len(Lines(bodies[2].bytes))

Sizes(bs) == [k \in 1..Len(bs) |-> Len(bs[k])]

\* C3: for every slice and capacity n, the chunks concatenated in order are
\* the slice; every chunk but the last has n entries, the last has 1..n;
\* no chunk is empty; the empty slice gives no chunk; 2500 entries with
\* n = 1000 give chunks of 1000, 1000 and 500.
C3_Batching ==
    fn.applied =>
        /\ Concat(fn.result) = fn.arg.entries
        /\ \A k \in 1..(Len(fn.result) - 1) : Len(fn.result[k]) = fn.arg.n
        /\ \A k \in 1..Len(fn.result) : Len(fn.result[k]) \in 1..fn.arg.n
        /\ fn.arg.entries = <<>> => fn.result = <<>>
        /\ (Len(fn.arg.entries) = 2500 /\ fn.arg.n = 1000) =>
              Sizes(fn.result) = <<1000, 1000, 500>>

\* C3 witness: the 2500 entries chunked with the capacity of the program.
C3_Witness ==
    /\ fn.applied
    /\ Len(fn.arg.entries) = 2500
    /\ fn.arg.n = BATCH_SIZE
    /\ Len(fn.result) = 3

\* C4: every broker operation awaited (connect, create_channel, basic_qos,
\* queue_declare and each basic_publish) runs under the timeout of
\* RABBIT_MQ_TIMEOUT seconds, so that a broker that does not answer makes
\* the run fail instead of wait.
C4_EveryBrokerOpTimed ==
    pc \in BrokerOps => timer = RABBIT_MQ_TIMEOUT

\* C7: for every broker operation, an operation the broker does not answer
\* within the bound ends in a timeout error, and that error differs from
\* the error of the same operation when the broker rejects it.
C7_TimeoutDistinguishable ==
    \A op \in BrokerOps :
        /\ (pc = op /\ ~responds) => timer > 0
        /\ (pc = "failed" /\ LastEv(Ev("timeout", op))) =>
              error = TimeoutError(op) /\ error # BrokerError(op)

HasCdx(p) == HasSub(p, W_cdx)

PathsPrinted == SelectSeq(stdout, LAMBDA o : o.what = "path")

\* C5: only the first path that contains "cdx-" is processed: the paths
\* before it are printed and not fetched, one CDX file is fetched, and no
\* path after it is taken from the index, fetched or published from.
C5_FirstCdxOnly ==
    /\ Len(fetched) <= 2 /\ Len(statuses) <= 2 /\ Len(bodies) <= 2
    /\ Len(fetched) >= 1 => fetched[1] = IndexUrl
    /\ Len(fetched) = 2 =>
          /\ idx \in 1..Len(paths)
          /\ HasCdx(paths[idx])
          /\ \A j \in 1..(idx - 1) : ~HasCdx(paths[j])
          /\ fetched[2] = CdxUrl(paths[idx])
          /\ PathsPrinted = [j \in 1..(idx - 1) |-> Out("path", paths[j], 0)]
    /\ Len(fetched) < 2 =>
          /\ \A j \in 1..idx : ~HasCdx(paths[j])
          /\ PathsPrinted = [j \in 1..idx |-> Out("path", paths[j], 0)]
          /\ sent = <<>> /\ nbatch = 0
    /\ pc \in {"publish", "basic_publish"} => Len(fetched) = 2

\* C5 witness: the run ended after publishing from the first CDX file, and
\* the next path of the index is a CDX file too.
C5_Witness ==
    /\ pc = "done"
    /\ Len(fetched) = 2
    /\ sent # <<>>
    /\ idx < Len(paths)
    /\ HasCdx(paths[idx + 1])

Count(seq, x) == Cardinality({i \in 1..Len(seq) : seq[i] = x})

C6_Inv ==
    /\ \A i \in 1..Len(trace) :
          trace[i].kind \in {"err", "timeout"} => i = Len(trace) /\ pc = "failed"
    /\ pc = "failed" <=> error # <<>>
    /\ \A op \in BrokerSetupOps : Count(trace, Ev("issue", op)) <= 1
    /\ Count(trace, Ev("issue", "send")) = Len(fetched)
    /\ \A i, j \in 1..Len(fetched) : fetched[i] = fetched[j] => i = j
    /\ Count(trace, Ev("issue", "bytes")) <= Len(fetched)
    /\ Count(trace, Ev("issue", "basic_publish")) = nbatch
    /\ Count(trace, Ev("ok", "basic_publish")) = Len(sent)
    /\ nbatch \in {Len(sent), Len(sent) + 1}

\* C6: every error is fatal and nothing is retried: a failure (of the
\* fetch, the decoding, the parsing of a line, or a broker operation) is
\* the last thing in the trace and leaves the run failed, a failed run
\* takes no further step, each set-up operation and each URL is issued at
\* most once and each batch is handed to basic_publish once.
C6_FatalNoRetry == [](C6_Inv) /\ [][pc # "failed"]_main_state

\* C6 witness: the publish of the second batch was rejected.
C6_Witness ==
    /\ pc = "failed"
    /\ LastEv(Ev("err", "basic_publish"))
    /\ nbatch = 2
    /\ Len(sent) = 1

\* C8: a response whose status is not 200 ends the run with the fetch
\* error: its body is not read and not decoded, and it gives no lines.
C8_NoDecodeOfNon200 ==
    /\ \A i \in 1..Len(statuses) :
          statuses[i] # StatusOK =>
              /\ i = Len(statuses)
              /\ pc = "failed"
              /\ error = <<FetchFailed>>
              /\ Len(bodies) = i - 1
              /\ i = 1 => paths = <<>>
              /\ english_cdx_entries = <<>>
    /\ Len(bodies) <= Count(statuses, StatusOK)
    /\ Count(trace, Ev("issue", "bytes")) = Count(statuses, StatusOK)
    /\ Count(trace, Ev("ok", "decode")) + Count(trace, Ev("err", "decode")) = Len(bodies)

\* C8 witness: the index was fetched and decoded, the CDX file answered 404.
C8_Witness ==
    /\ statuses = <<StatusOK, 404>>
    /\ pc = "failed"
    /\ Len(bodies) = 1
    /\ paths # <<>>

\* The lines of the text parsed on its own, and the third part of line i.
TextOf == Lines(fn.arg)
PayloadOf(i) == SplitN(TextOf[i], 3, SP)[3]

InSeq(x, seq) == \E j \in 1..Len(seq) : seq[j] = x

\* C9: the filter keeps an entry iff its languages is present and contains
\* "eng"; a line without a languages member parses and its entry is
\* dropped; the entries kept are the English ones in line order; of the
\* three lines of the fixture exactly one is kept.
C9_LanguageFilter ==
    (fn.applied /\ fn.result.english.ok) =>
        /\ \A i \in 1..Len(fn.result.parsed) :
              /\ InSeq(fn.result.parsed[i].entry, fn.result.english.entries)
                    <=> HasEng(fn.result.parsed[i].entry.metadata.languages)
              /\ ~HasSub(TextOf[i], <<Q>> \o K_languages \o <<Q>>) =>
                    /\ fn.result.parsed[i].entry.metadata.languages = <<>>
                    /\ ~InSeq(fn.result.parsed[i].entry, fn.result.english.entries)
        /\ fn.result.english.entries = FilteredEntries(TextOf)
        /\ fn.arg = Fixture =>
              Len(fn.result.parsed) = 3 /\ Len(fn.result.english.entries) = 1

\* C9 witness: the fixture, whose first line has no languages member and
\* whose third line is the one kept.
C9_Witness ==
    /\ fn.applied
    /\ fn.arg = Fixture
    /\ fn.result.english.ok
    /\ fn.result.parsed[1].entry.metadata.languages = <<>>
    /\ fn.result.english.entries = <<fn.result.parsed[3].entry>>

\* The members of the payload of line i, and of its metadata serialized again.
OriginalMembers(i) == ParseObject(PayloadOf(i)).members
ReserializedMembers(i) ==
    ParseObject(SerMetadata(fn.result.parsed[i].entry.metadata)).members

\* C10 as claimed: for every line that parses, every member of the JSON
\* payload is a member, with the same value, of the metadata serialized again.
C10_RoundTripEveryField ==
    fn.applied =>
        \A i \in 1..Len(fn.result.parsed) :
            fn.result.parsed[i].ok =>
                \A m \in 1..Len(OriginalMembers(i)) :
                    InSeq(OriginalMembers(i)[m], ReserializedMembers(i))

IsMetadataField(k) == \E n \in 1..Len(CdxMetadataFields) : CdxMetadataFields[n] = k

\* C10 as amended: for every line that parses, every member of the JSON
\* payload that is named like a field of CdxMetadata is a member, with the
\* same value, of the metadata serialized again; the other members of the
\* payload are not in it.
C10_RoundTripMetadataFields ==
    fn.applied =>
        \A i \in 1..Len(fn.result.parsed) :
            fn.result.parsed[i].ok =>
                /\ ParseObject(SerMetadata(fn.result.parsed[i].entry.metadata)).ok
                /\ \A m \in 1..Len(OriginalMembers(i)) :
                      IsMetadataField(OriginalMembers(i)[m][1])
                          <=> InSeq(OriginalMembers(i)[m], ReserializedMembers(i))

\* C10 witness: a line that parses, with a languages member and two
\* members the struct has no field for.
C10_Witness ==
    /\ fn.applied
    /\ Len(fn.result.parsed) = 1
    /\ fn.result.parsed[1].ok
    /\ Len(OriginalMembers(1)) = 8
    /\ fn.result.parsed[1].entry.metadata.languages # <<>>

\* End of the token of s that starts at i: the first position at or after i
\* that holds whitespace, or Len(s) + 1.
RECURSIVE TokenEnd(_, _)
TokenEnd(s, i) == IF i <= Len(s) /\ ~IsWs(s[i]) THEN TokenEnd(s, i + 1) ELSE i

\* End of the top-level token of s that starts at i: a token that opens a
\* JSON object runs to the end of the line.
TopTokenEnd(s, i) == IF i <= Len(s) /\ s[i] = "{" THEN Len(s) + 1 ELSE TokenEnd(s, i)

\* Where the third top-level token of s starts: after two tokens and the
\* whitespace around them; Len(s) + 1 when s has fewer than three.
ThirdTokenStart(s) ==
    SkipWs(s, TopTokenEnd(s, SkipWs(s, TopTokenEnd(s, SkipWs(s, 1)))))

FewerThanThreeTokens(s) == ThirdTokenStart(s) > Len(s)

\* The text is a JSON object with the five String fields, each once and a
\* string, and languages, if there, once and a string or null.
ShapedMembers(ms) ==
    /\ \A n \in 1..Len(RequiredFields) :
          \E m \in 1..Len(ms) : ms[m][1] = RequiredFields[n] /\ ms[m][2].t = "str"
    /\ \A m \in 1..Len(ms) :
          /\ ms[m][1] = K_languages => ms[m][2].t \in {"str", "null"}
          /\ IsMetadataField(ms[m][1]) =>
                \A k \in 1..Len(ms) : ms[k][1] = ms[m][1] => k = m

ShapedObject(o) == o.ok /\ ShapedMembers(o.members)

MetadataShaped(text) == ShapedObject(ParseObject(text))

\* The parts of line i of the text at its first two spaces.
PartsOf(i) == SplitN(TextOf[i], 3, SP)

\* C11: a line with fewer than three whitespace-separated top-level tokens,
\* and a line whose third part is not JSON of the shape of CdxMetadata, give
\* an error and no entry.
C11_MalformedLinesFail ==
    fn.applied =>
        \A i \in 1..Len(fn.result.parsed) :
            /\ FewerThanThreeTokens(TextOf[i]) => ~fn.result.parsed[i].ok
            /\ (Len(PartsOf(i)) = 3 /\ ~MetadataShaped(PartsOf(i)[3])) =>
                  ~fn.result.parsed[i].ok

\* The positions of the delimiter in s, the first two of them, and the
\* least element of a set of positions.
Delims(s) == {j \in 1..Len(s) : s[j] = SP}
Least(S) == CHOOSE j \in S : \A k \in S : j <= k
Delim1(s) == Least(Delims(s))
Delim2(s) == Least(Delims(s) \ {Delim1(s)})
AfterDelim2(s) == SubSeq(s, Delim2(s) + 1, Len(s))

\* The string value of member k of the JSON object text.
StringOf(text, k) ==
    ParseObject(text).members[CHOOSE m \in 1..Len(ParseObject(text).members) :
                                  ParseObject(text).members[m][1] = k][2].v

\* The entry e is line s cut at its first two delimiters: the part before
\* the first, the part between them, and the whole rest decoded.
CutAtTwoDelims(s, e) ==
    /\ e.surt_url = SubSeq(s, 1, Delim1(s) - 1)
    /\ e.timestamp = SubSeq(s, Delim1(s) + 1, Delim2(s) - 1)
    /\ e.metadata.url = StringOf(AfterDelim2(s), K_url)
    /\ e.metadata.status = StringOf(AfterDelim2(s), K_status)
    /\ e.metadata.length = StringOf(AfterDelim2(s), K_length)
    /\ e.metadata.offset = StringOf(AfterDelim2(s), K_offset)
    /\ e.metadata.filename = StringOf(AfterDelim2(s), K_filename)

\* The line terminators of the text.
Terminators(t) == {j \in 1..Len(t) : t[j] = NL}

\* C12: a line is cut at its first two delimiters and nowhere else: a line
\* with two delimiters whose rest, spaces included, is metadata gives an
\* entry of the part before the first delimiter, the part between the two
\* and that rest decoded; the lines of a text give one result each, in
\* line order.
C12_SplitAtTwoDelimiters ==
    fn.applied =>
        /\ Len(fn.result.parsed) =
              Cardinality(Terminators(fn.arg))
                  + (IF fn.arg # <<>> /\ fn.arg[Len(fn.arg)] # NL THEN 1 ELSE 0)
        /\ JoinLines(TextOf) \in {fn.arg, fn.arg \o <<NL>>}
        /\ \A i \in 1..Len(fn.result.parsed) :
              IF Cardinality(Delims(TextOf[i])) >= 2
                    /\ MetadataShaped(AfterDelim2(TextOf[i]))
              THEN /\ fn.result.parsed[i].ok
                   /\ CutAtTwoDelims(TextOf[i], fn.result.parsed[i].entry)
              ELSE ~fn.result.parsed[i].ok

\* C12 witness: the three lines of the fixture, whose payloads hold
\* spaces, parsed into three entries in line order.
C12_Witness ==
    /\ fn.applied
    /\ fn.arg = Fixture
    /\ Len(fn.result.parsed) = 3
    /\ \A i \in 1..3 : fn.result.parsed[i].ok
    /\ Cardinality(Delims(FixtureLine2)) > 2
    /\ fn.result.parsed[2].entry.timestamp = SubSeq(FixtureLine2, 26, 39)
    /\ fn.result.parsed[3].entry.metadata.length = <<"1", "6", "6", "5", "0">>

\* C13: the queue the producer declared is durable, and after a restart of
\* the broker every batch the broker had accepted is still in the queue.
C13_DurableQueue ==
    /\ (publisher.queue = CC_QUEUE_NAME /\ ~broker.restarted) =>
          /\ broker.queue.name = CC_QUEUE_NAME
          /\ broker.queue.options.durable
    /\ broker.restarted =>
          \A i \in 1..Len(published) :
              \E j \in 1..Len(broker.messages) :
                  broker.messages[j].body = published[i].body

\* How many times a network operation was issued and how many times one
\* came to its end (an answer, an error, or the timeout that drops it).
Issued(op) == Count(trace, Ev("issue", op))
Completed(op) ==
    Count(trace, Ev("ok", op)) + Count(trace, Ev("err", op)) + Count(trace, Ev("timeout", op))
InFlight == {op \in NetworkOps : Issued(op) > Completed(op)}

\* C14: at most one network operation is in flight, and it is the one main
\* awaits; an operation is issued only when every operation issued before
\* has come to its end, so no two publishes are in flight together.
C14_SingleStream ==
    /\ InFlight = (IF pc \in NetworkOps THEN {pc} ELSE {})
    /\ \A op \in NetworkOps : Issued(op) - Completed(op) \in {0, 1}
    /\ \A i \in 1..Len(trace) :
          (trace[i].kind = "issue" /\ i > 1) =>
              /\ trace[i - 1].kind # "issue"
              /\ \A k \in 1..(i - 1) :
                    trace[k].kind = "issue" =>
                        \E j \in (k + 1)..(i - 1) :
                            /\ trace[j].op = trace[k].op
                            /\ trace[j].kind \in {"ok", "err", "timeout"}

\* C14 witness: the second publish is in flight, the first was answered.
C14_Witness ==
    /\ pc = "basic_publish"
    /\ nbatch = 2
    /\ Issued("basic_publish") = 2
    /\ Completed("basic_publish") = 1
    /\ InFlight = {"basic_publish"}

\* The positions in the trace of the events e.
Positions(e) == {i \in 1..Len(trace) : trace[i] = e}

\* C15: an HTTP request is issued only after connect, create_channel,
\* basic_qos and queue_declare have all answered Ok, and a run that ends in
\* the error or the timeout of one of them, or without the connection
\* string, has made no request.
C15_PublisherBeforeFetch ==
    /\ \A i \in Positions(Ev("issue", "send")) :
          \A op \in BrokerSetupOps :
              \E j \in Positions(Ev("ok", op)) : j < i
    /\ fetched # <<>> =>
          /\ publisher.conn /\ publisher.channel
          /\ publisher.prefetch = 1
          /\ publisher.queue = CC_QUEUE_NAME
    /\ Len(fetched) = Cardinality(Positions(Ev("issue", "send")))
    /\ (pc = "failed" /\ \E op \in BrokerSetupOps :
                            LastEv(Ev("err", op)) \/ LastEv(Ev("timeout", op))) =>
          fetched = <<>> /\ statuses = <<>> /\ bodies = <<>>
    /\ (pc = "failed" /\ trace = <<>>) => fetched = <<>>

\* C15 witness: the declaration of the queue timed out after the three
\* operations before it had succeeded; no request was made.
C15_Witness ==
    /\ pc = "failed"
    /\ LastEv(Ev("timeout", "queue_declare"))
    /\ publisher.prefetch = 1
    /\ fetched = <<>>

\* The messages of the queue that the broker has on disk: those published
\* as persistent to a durable queue.
PersistedBodies ==
    {broker.messages[j].body :
        j \in {k \in 1..Len(broker.messages) :
                  /\ broker.queue.options.durable
                  /\ broker.messages[k].properties.delivery_mode = "persistent"}}

\* C16: a publish is successful once the broker has accepted the frame:
\* each Ok of basic_publish is one message accepted, and what follows it in
\* the run is the next basic_publish or nothing; the producer awaits
\* nothing else of the broker, whether or not the message is on disk.
C16_FireAndForget ==
    /\ Count(trace, Ev("ok", "basic_publish")) = Len(published)
    /\ \A i \in Positions(Ev("ok", "basic_publish")) :
          i < Len(trace) => trace[i + 1] = Ev("issue", "basic_publish")
    /\ \A i \in 1..Len(trace) :
          trace[i].op \in NetworkOps \cup {"status", "decode", "parse"}
    /\ (pc \in {"publish", "done"} /\ published # <<>>) =>
          LastEv(Ev("ok", "basic_publish"))

\* C16 witness: the run completed, the broker had accepted two batches, none
\* of them was on disk, and after a restart the broker has none of them.
C16_Witness ==
    /\ pc = "done"
    /\ error = <<>>
    /\ Len(published) = 2
    /\ \A i \in 1..Len(published) : published[i].body \notin PersistedBodies
    /\ broker.restarted
    /\ broker.messages = <<>>

\* The k-th batch of the entries es: the entries (k-1)*n+1 .. k*n, fewer at
\* the end.
NthBatch(es, n, k) ==
    SubSeq(es, (k - 1) * n + 1, IF k * n <= Len(es) THEN k * n ELSE Len(es))

IsPrefix(a, b) == Len(a) <= Len(b) /\ SubSeq(b, 1, Len(a)) = a

\* What has been published is the first batches of the filtered file, in
\* order and whole; a publish that failed was that of the batch right after
\* them.
FirstBatchesOf(es) ==
    \A k \in 1..Len(published) :
        /\ sent[k] = NthBatch(es, ScaledBatchSize, k)
        /\ sent[k] # <<>>
        /\ published[k].body = to_vec(sent[k])

C17_Inv ==
    /\ Len(published) = Len(sent)
    /\ published # <<>> =>
          /\ Len(bodies) = 2
          /\ FirstBatchesOf(FilteredEntries(Lines(bodies[2].bytes)))
    /\ (pc = "failed" /\ LastEv(Ev("err", "basic_publish"))) =>
          /\ Len(published) = nbatch - 1
          /\ error = BrokerError("basic_publish")

\* C17: in every state the messages published are a prefix of the batches
\* of the filtered CDX file; a step never takes a published message back,
\* and after a failure no message is published.
C17_PublishedIsPrefix ==
    /\ [](C17_Inv)
    /\ [][IsPrefix(published, published')
             /\ (pc = "failed" => published' = published)]_vars

\* C17 witness: the publish of the second of the batches failed; the first
\* is published, the second and those after it are not.
C17_Witness ==
    /\ pc = "failed"
    /\ LastEv(Ev("err", "basic_publish"))
    /\ Len(published) = 1
    /\ Len(FilteredEntries(Lines(bodies[2].bytes))) > 2 * ScaledBatchSize - 1

\* Line s is a CDX line: two delimiters and metadata after them.
ValidCdxLine(s) == Cardinality(Delims(s)) >= 2 /\ MetadataShaped(AfterDelim2(s))

AllValid(ls) == \A i \in 1..Len(ls) : ValidCdxLine(ls[i])

\* The CDX file was read and decoded; its lines.
CdxFileRead == Len(bodies) = 2 /\ Count(trace, Ev("ok", "decode")) = 2
CdxFileLines == Lines(bodies[2].bytes)

\* C18: every line of the CDX file is parsed before the first publish: when
\* some line of the file, wherever it is, does not parse, the run has
\* failed with the panic of the parser and no batch was handed to the
\* broker; a publish is issued only for a file all of whose lines parse.
C18_ParseAllBeforePublish ==
    /\ (CdxFileRead /\ ~AllValid(CdxFileLines)) =>
          /\ pc = "failed"
          /\ error = <<ParsePanic>>
          /\ LastEv(Ev("err", "parse"))
          /\ published = <<>> /\ sent = <<>> /\ nbatch = 0
          /\ Issued("basic_publish") = 0
          /\ broker.messages = <<>>
    /\ Issued("basic_publish") > 0 =>
          /\ CdxFileRead
          /\ AllValid(CdxFileLines)

\* C18 witness: three English lines, enough for two batches, and a last
\* line that does not parse: the run failed and published nothing.
C18_Witness ==
    /\ pc = "failed"
    /\ published = <<>>
    /\ CdxFileRead
    /\ Len(CdxFileLines) = 4
    /\ AllValid(SubSeq(CdxFileLines, 1, 3))
    /\ Len(FilteredEntries(CdxFileLines)) = 3
    /\ ~ValidCdxLine(CdxFileLines[4])

\* C19: when every HTTP request gets its response, every run comes to an
\* end, completed or failed, whatever the broker does.
C19_Terminates == <>(pc \in {"done", "failed"})

====
